---- MODULE Spec2Model ----
(***************************************************************************)
(* Model of app_bridgemon.c: the BridgeMon session lifecycle               *)
(* (start_bridgemon / stop_bridgemon), the datastore teardown              *)
(* (bridgemon_ds_destroy) and the bridge join hook                         *)
(* (bridgemon_hook_callback), run by management threads and by the bridge  *)
(* threads of the joining channels.                                        *)
(***************************************************************************)
EXTENDS Integers, Sequences, FiniteSets, TLC

\* ------------------------------------------------------------- bounds
\* Number of bridgemon_data / bridgemon_ds slots the heap hands out.
MaxSessions == 2
\* Number of management calls (start or stop) over a run.
MaxCalls == 3
\* Number of management threads that can be inside start/stop at once.
NumThreads == 1
\* The same, in the specification of concurrent management calls.
ConcThreads == 2
\* Number of channels the bridge takes.
MaxBridge == 2
\* Length of the unique id of the long-id channel.
LongIdLen == 64

\* ---------------------------------------------------------- constants
\* char peer_id[64]
PEER_ID_SIZE == 64

Channels == {"A", "B", "C"}
\* Channels that management calls are aimed at.
Targets == {"A"}
Slots == 1 .. MaxSessions
Threads == 1 .. (IF NumThreads > ConcThreads THEN NumThreads
                 ELSE ConcThreads)
NULL == 0

Entries == {"app", "cli", "ami"}
NoReport == [e \in Entries |-> ""]

\* ------------------------------------------------------------ strings
\* Strings are sequences of characters, so that copying, formatting and
\* comparing them are computed as the C library computes them.
Min(a, b) == IF a < b THEN a ELSE b

\* ast_channel_uniqueid(): A and B carry ordinary short ids, C a long one.
ast_channel_uniqueid(c) ==
    CASE c = "A" -> <<"1", ".", "1">>
      [] c = "B" -> <<"1", ".", "2">>
      [] OTHER   -> [i \in 1 .. LongIdLen |->
                        IF i = 1 THEN "1" ELSE IF i = 2 THEN "." ELSE "3"]

ast_channel_name(c) == <<"S", "/", c>>

\* ast_copy_string(dst, src, size): at most size - 1 characters are copied.
ast_copy_string(src, size) == SubSeq(src, 1, Min(Len(src), size - 1))

\* tolower() on the alphabet of the model's inputs.
ToLower(ch) == IF ch = "X" THEN "x" ELSE ch

\* strcasecmp(a, b) == 0
StrCaseEq(a, b) ==
    /\ Len(a) = Len(b)
    /\ \A i \in 1 .. Len(a) : ToLower(a[i]) = ToLower(b[i])

HexDigit == <<"1", "2", "3", "4", "5", "6", "7", "8", "9">>

\* ast_asprintf(datastore_id, "%p", bridgemon_ds): slot h lives at address h.
PtrStr(h) == <<"0", "x", HexDigit[h]>>

S1 == <<"s", "1">>
\* Session ids a caller passes to start.
StartIds == {S1}
\* Ids a caller passes to stop: the session id, and strings that happen to
\* spell a datastore's "%p" id (in either letter case).
StopIds == {S1, PtrStr(1), <<"0", "X", "2">>}

Unset == <<>>
One == <<"1">>
Keys == {"BRIDGEPEERID", "BRIDGEMON_PEER_FOUND", "BRIDGEMON_PEER_NAME",
         "BRIDGEMON_CHANNEL_ID", "BRIDGEMON_HOOK_TRIGGERED",
         "BRIDGEMON_MONITORING_STARTED", "BRIDGEMON_HOOK_ADDED"}

\* -------------------------------------------------------------- state
VARIABLES
    records,     \* struct bridgemon_data, by slot
    handles,     \* struct bridgemon_ds with its ast_datastore, by slot
    datastores,  \* per channel: the channel's datastore list (head first)
    chanvars,    \* per channel: the Variable Store
    chanLock,    \* per channel: holder of ast_channel_lock, or Free
    dsLock,      \* per slot: holder of bridgemon_ds->lock, or Free
    bridge,      \* channels currently in the bridge
    cb,          \* join hook invocations, by (slot, joining channel)
    mg,          \* management threads: the call each is executing
    nextSlot,    \* next heap slot
    ncalls,      \* management calls begun
    startRet,    \* per slot: what start returned ("none", "ok", "fail")
    stopRet,     \* per slot: a stop that found this handle has returned 0
    alive        \* channels the host has not destroyed

vars == <<records, handles, datastores, chanvars, chanLock, dsLock, bridge,
          cb, mg, nextSlot, ncalls, startRet, stopRet, alive>>

Free == <<"free">>
MgId(t) == <<"mg", t>>
CbId(r, c) == <<"cb", r, c>>

\* lock is the holder of bridgemon_data->lock.
NoRecord == [state |-> "none", monitored_channel |-> "", channel_id |-> Unset,
             active |-> FALSE, hooked |-> FALSE, lock |-> Free]
\* teardowns counts the runs of bridgemon_ds_destroy on the handle.
NoHandle == [state |-> "none", bridgemon_data |-> NULL,
             destruction_ok |-> FALSE, ds |-> "none", uid |-> Unset,
             teardowns |-> 0]
NoCb == [pc |-> "none", peer_id |-> Unset, wrote |-> Unset, target |-> "",
         nwrites |-> 0, sawInactive |-> FALSE, afterStop |-> FALSE,
         wroteAfterStop |-> FALSE, wroteBeforeRet |-> FALSE,
         peerAtLookup |-> "", lockedAtCheck |-> FALSE,
         afterDestroy |-> FALSE, usedGone |-> FALSE]
Idle == [op |-> "idle", chan |-> "", id |-> Unset, pc |-> "idle", h |-> NULL,
         res |-> 0, reported |-> NoReport, wasActive |-> FALSE,
         wasKnown |-> FALSE, lockedAtClear |-> FALSE, staleDs |-> FALSE]
\* A thread slot that takes no calls.
Off == [Idle EXCEPT !.pc = "off"]

Init ==
    /\ records = [r \in Slots |-> NoRecord]
    /\ handles = [h \in Slots |-> NoHandle]
    /\ datastores = [c \in Channels |-> <<>>]
    /\ chanvars = [c \in Channels |-> [k \in Keys |-> Unset]]
    /\ chanLock = [c \in Channels |-> Free]
    /\ dsLock = [h \in Slots |-> Free]
    /\ bridge = {}
    /\ cb = [r \in Slots |-> [c \in Channels |-> NoCb]]
    /\ mg = [t \in Threads |-> IF t <= NumThreads THEN Idle ELSE Off]
    /\ nextSlot = 1
    /\ ncalls = 0
    /\ startRet = [r \in Slots |-> "none"]
    /\ stopRet = [r \in Slots |-> FALSE]
    /\ alive = Channels


\* ------------------------------------------------------ host services
\* pbx_builtin_setvar_helper(chan, name, value)
pbx_builtin_setvar_helper(store, c, k, v) == [store EXCEPT ![c][k] = v]

\* AST_LIST_INSERT_HEAD in ast_channel_datastore_add(chan, datastore)
ast_channel_datastore_add(list, h) == <<h>> \o list

RECURSIVE FindFirst(_, _, _)
FindFirst(list, hs, uid) ==
    IF list = <<>> THEN NULL
    ELSE IF hs[Head(list)].uid # Unset /\ StrCaseEq(uid, hs[Head(list)].uid)
         THEN Head(list)
         ELSE FindFirst(Tail(list), hs, uid)

\* ast_channel_datastore_find(chan, &bridgemon_ds_info, uid): the first
\* datastore of the channel whose uid equals uid, letter case ignored.
ast_channel_datastore_find(c, uid) == FindFirst(datastores[c], handles, uid)

InList(list, h) == \E i \in 1 .. Len(list) : list[i] = h

\* ast_channel_datastore_remove(chan, datastore)
ast_channel_datastore_remove(list, h) == SelectSeq(list, LAMBDA x : x # h)

\* ast_bridge_channel_peer(bridge_channel): the other channel of a
\* two-party bridge, none otherwise.
ast_bridge_channel_peer(c) ==
    IF c \in bridge /\ Cardinality(bridge) = 2
    THEN CHOOSE p \in bridge : p # c
    ELSE ""

\* ------------------------------------------------- management surface
\* What each entry point (dialplan application, CLI command, manager
\* action) reports to its caller for a start/stop result.
bridgemon_exec(res) == IF res = 0 THEN "success" ELSE "failure"
stop_bridgemon_exec(res) == IF res = 0 THEN "success" ELSE "failure"
\* The CLI handler drops the result and returns CLI_SUCCESS.
handle_cli_bridgemon(res) == "success"
manager_bridgemon(res) == IF res # 0 THEN "failure" ELSE "success"
manager_stop_bridgemon(res) == IF res # 0 THEN "failure" ELSE "success"

Report(entry, op, res) ==
    CASE entry = "app" /\ op = "start" -> bridgemon_exec(res)
      [] entry = "app" /\ op = "stop"  -> stop_bridgemon_exec(res)
      [] entry = "cli"                 -> handle_cli_bridgemon(res)
      [] entry = "ami" /\ op = "start" -> manager_bridgemon(res)
      [] OTHER                         -> manager_stop_bridgemon(res)

Return(m, res) ==
    [m EXCEPT !.pc = "done", !.res = res,
              !.reported = [e \in Entries |-> Report(e, m.op, res)]]

\* A fault ends the process: no thread takes another step.
Crashed ==
    \/ \E t \in Threads : mg[t].pc = "crashed"
    \/ \E r \in Slots, c \in Channels : cb[r][c].pc = "crashed"
Running == ~Crashed
Available(t) ==
    /\ mg[t].pc \in {"idle", "done"}
    /\ \A u \in Threads : u < t => mg[u].pc \notin {"idle", "done"}

\* A session (c, id) whose start has returned success and that is active.
SessionStarted(c, id) ==
    \E r \in Slots : /\ startRet[r] = "ok"
                     /\ records[r].active
                     /\ records[r].monitored_channel = c
                     /\ records[r].channel_id = id

\* A live, active record for (c, id), its start returned or not.
SessionKnown(c, id) ==
    \E r \in Slots : /\ records[r].state = "live"
                     /\ records[r].active
                     /\ records[r].monitored_channel = c
                     /\ records[r].channel_id = id

\* Some start on channel c has returned success.
StartedOn(c) ==
    \E r \in Slots : startRet[r] = "ok" /\ records[r].monitored_channel = c

\* ------------------------------------------------------ start_bridgemon
\* bridgemon_data_free(bridgemon_data)
bridgemon_data_free(recs, r) ==
    IF r # NULL THEN [recs EXCEPT ![r].state = "freed"] ELSE recs

\* Entry, and ast_calloc of bridgemon_data failing.
StartAllocFail(t, c, id) ==
    /\ Running
    /\ Available(t) /\ ncalls < MaxCalls
    /\ c \in alive
    /\ ncalls' = ncalls + 1
    /\ mg' = [mg EXCEPT ![t] =
                Return([Idle EXCEPT !.op = "start", !.chan = c, !.id = id],
                       -1)]
    /\ UNCHANGED <<alive, records, handles, datastores, chanvars, chanLock, dsLock,
                   bridge, cb, nextSlot, startRet, stopRet>>

\* Entry, allocation and initialisation of bridgemon_data (active = 1).
StartAlloc(t, c, id) ==
    /\ Running
    /\ Available(t) /\ ncalls < MaxCalls
    /\ c \in alive
    /\ nextSlot <= MaxSessions
    /\ ncalls' = ncalls + 1
    /\ nextSlot' = nextSlot + 1
    /\ records' = [records EXCEPT ![nextSlot] =
                     [state |-> "live", monitored_channel |-> c,
                      channel_id |-> id, active |-> TRUE, hooked |-> FALSE,
                      lock |-> Free]]
    /\ mg' = [mg EXCEPT ![t] =
                [Idle EXCEPT !.op = "start", !.chan = c, !.id = id,
                             !.h = nextSlot, !.pc = "s_mark_lk"]]
    /\ UNCHANGED <<alive, handles, datastores, chanvars, chanLock, dsLock, bridge,
                   cb, startRet, stopRet>>

StartMarkLock(t) ==
    /\ Running
    /\ mg[t].pc = "s_mark_lk"
    /\ chanLock[mg[t].chan] = Free
    /\ chanLock' = [chanLock EXCEPT ![mg[t].chan] = MgId(t)]
    /\ mg' = [mg EXCEPT ![t].pc = "s_mark"]
    /\ UNCHANGED <<alive, records, handles, datastores, chanvars, dsLock, bridge,
                   cb, nextSlot, ncalls, startRet, stopRet>>

StartMark(t) ==
    /\ Running
    /\ mg[t].pc = "s_mark"
    /\ chanvars' = pbx_builtin_setvar_helper(chanvars, mg[t].chan,
                       "BRIDGEMON_MONITORING_STARTED", One)
    /\ chanLock' = [chanLock EXCEPT ![mg[t].chan] = Free]
    /\ mg' = [mg EXCEPT ![t].pc = "s_init"]
    /\ UNCHANGED <<alive, records, handles, datastores, dsLock, bridge, cb,
                   nextSlot, ncalls, startRet, stopRet>>

StartFail(t) ==
    /\ records' = bridgemon_data_free(records, mg[t].h)
    /\ startRet' = [startRet EXCEPT ![mg[t].h] = "fail"]
    /\ mg' = [mg EXCEPT ![t] = Return(mg[t], -1)]

\* ast_bridge_features_init fails.
StartFeaturesFail(t) ==
    /\ Running
    /\ mg[t].pc = "s_init"
    /\ StartFail(t)
    /\ UNCHANGED <<alive, handles, datastores, chanvars, chanLock, dsLock, bridge,
                   cb, nextSlot, ncalls, stopRet>>

\* setup_bridgemon_ds fails before the datastore exists: whatever was
\* allocated is released again.
StartSetupFail(t) ==
    /\ Running
    /\ mg[t].pc = "s_init"
    /\ StartFail(t)
    /\ UNCHANGED <<alive, handles, datastores, chanvars, chanLock, dsLock, bridge,
                   cb, nextSlot, ncalls, stopRet>>

\* setup_bridgemon_ds up to datastore->data = bridgemon_ds: the datastore
\* is allocated under the id "%p" of the bridgemon_ds.
setup_bridgemon_ds(hs, r) ==
    [hs EXCEPT ![r] = [state |-> "alloc", bridgemon_data |-> r,
                       destruction_ok |-> FALSE, ds |-> "alloc",
                       uid |-> PtrStr(r), teardowns |-> 0]]

StartSetup(t) ==
    /\ Running
    /\ mg[t].pc = "s_init"
    /\ handles' = setup_bridgemon_ds(handles, mg[t].h)
    /\ mg' = [mg EXCEPT ![t].pc = "s_att_lk"]
    /\ UNCHANGED <<alive, records, datastores, chanvars, chanLock, dsLock, bridge,
                   cb, nextSlot, ncalls, startRet, stopRet>>

StartAttachLock(t) ==
    /\ Running
    /\ mg[t].pc = "s_att_lk"
    /\ chanLock[mg[t].chan] = Free
    /\ chanLock' = [chanLock EXCEPT ![mg[t].chan] = MgId(t)]
    /\ mg' = [mg EXCEPT ![t].pc = "s_attach"]
    /\ UNCHANGED <<alive, records, handles, datastores, chanvars, dsLock, bridge,
                   cb, nextSlot, ncalls, startRet, stopRet>>

StartAttach(t) ==
    /\ Running
    /\ mg[t].pc = "s_attach"
    /\ datastores' = [datastores EXCEPT ![mg[t].chan] =
                        ast_channel_datastore_add(@, mg[t].h)]
    /\ handles' = [handles EXCEPT ![mg[t].h].ds = "attached"]
    /\ chanLock' = [chanLock EXCEPT ![mg[t].chan] = Free]
    /\ mg' = [mg EXCEPT ![t].pc = "s_hook"]
    /\ UNCHANGED <<alive, records, chanvars, dsLock, bridge, cb, nextSlot, ncalls,
                   startRet, stopRet>>

\* ast_bridge_join_hook succeeds: the callback is registered.
StartHook(t) ==
    /\ Running
    /\ mg[t].pc = "s_hook"
    /\ records' = [records EXCEPT ![mg[t].h].hooked = TRUE]
    /\ mg' = [mg EXCEPT ![t].pc = "s_added_lk"]
    /\ UNCHANGED <<alive, handles, datastores, chanvars, chanLock, dsLock, bridge,
                   cb, nextSlot, ncalls, startRet, stopRet>>

\* Faulty variant: the hook is left registered although registration reported
\* failure.
StartHookFailRegistered(t) ==
    /\ Running
    /\ mg[t].pc = "s_hook"
    /\ records' = [bridgemon_data_free(records, mg[t].h)
                     EXCEPT ![mg[t].h].hooked = TRUE]
    /\ startRet' = [startRet EXCEPT ![mg[t].h] = "fail"]
    /\ mg' = [mg EXCEPT ![t] = Return(mg[t], -1)]
    /\ UNCHANGED <<alive, handles, datastores, chanvars, chanLock, dsLock, bridge,
                   cb, nextSlot, ncalls, stopRet>>

\* ast_bridge_join_hook fails: the record is freed and start returns -1;
\* the datastore added by setup_bridgemon_ds stays on the channel.
StartHookFail(t) ==
    /\ Running
    /\ mg[t].pc = "s_hook"
    /\ StartFail(t)
    /\ UNCHANGED <<alive, handles, datastores, chanvars, chanLock, dsLock, bridge,
                   cb, nextSlot, ncalls, stopRet>>

StartAddedLock(t) ==
    /\ Running
    /\ mg[t].pc = "s_added_lk"
    /\ chanLock[mg[t].chan] = Free
    /\ chanLock' = [chanLock EXCEPT ![mg[t].chan] = MgId(t)]
    /\ mg' = [mg EXCEPT ![t].pc = "s_added"]
    /\ UNCHANGED <<alive, records, handles, datastores, chanvars, dsLock, bridge,
                   cb, nextSlot, ncalls, startRet, stopRet>>

StartAdded(t) ==
    /\ Running
    /\ mg[t].pc = "s_added"
    /\ chanvars' = pbx_builtin_setvar_helper(chanvars, mg[t].chan,
                       "BRIDGEMON_HOOK_ADDED", One)
    /\ chanLock' = [chanLock EXCEPT ![mg[t].chan] = Free]
    /\ startRet' = [startRet EXCEPT ![mg[t].h] = "ok"]
    /\ mg' = [mg EXCEPT ![t] = Return(mg[t], 0)]
    /\ UNCHANGED <<alive, records, handles, datastores, dsLock, bridge, cb,
                   nextSlot, ncalls, stopRet>>

\* ------------------------------------------------- bridgemon_ds_destroy
\* Faulty variant: the teardown leaves the record reference in place.
bridgemon_ds_destroy_keeps_record(hs, h) ==
    [hs EXCEPT ![h].destruction_ok = TRUE, ![h].ds = "freed",
               ![h].teardowns = @ + 1]

\* Run by ast_datastore_free(): under the bridgemon_ds lock the record
\* reference is cleared and destruction_ok is set; the datastore is then
\* released by the host.
bridgemon_ds_destroy(hs, h) ==
    [hs EXCEPT ![h].bridgemon_data = NULL, ![h].destruction_ok = TRUE,
               ![h].ds = "freed", ![h].teardowns = @ + 1]

\* ------------------------------------------------------- stop_bridgemon
StopBegin(t, c, id) ==
    /\ Running
    /\ Available(t) /\ ncalls < MaxCalls
    /\ c \in alive
    /\ ncalls' = ncalls + 1
    /\ mg' = [mg EXCEPT ![t] =
                [Idle EXCEPT !.op = "stop", !.chan = c, !.id = id,
                             !.pc = "p_find_lk"]]
    /\ UNCHANGED <<alive, records, handles, datastores, chanvars, chanLock, dsLock,
                   bridge, cb, nextSlot, startRet, stopRet>>

StopFindLock(t) ==
    /\ Running
    /\ mg[t].pc = "p_find_lk"
    /\ chanLock[mg[t].chan] = Free
    /\ chanLock' = [chanLock EXCEPT ![mg[t].chan] = MgId(t)]
    /\ mg' = [mg EXCEPT ![t].pc = "p_find"]
    /\ UNCHANGED <<alive, records, handles, datastores, chanvars, dsLock, bridge,
                   cb, nextSlot, ncalls, startRet, stopRet>>

\* Lookup by uid; no datastore found: return -1.
StopFind(t) ==
    /\ Running
    /\ mg[t].pc = "p_find"
    /\ LET found == ast_channel_datastore_find(mg[t].chan, mg[t].id)
           m == [mg[t] EXCEPT !.h = found,
                              !.wasActive = SessionStarted(mg[t].chan, mg[t].id),
                              !.wasKnown = SessionKnown(mg[t].chan, mg[t].id)]
       IN  mg' = [mg EXCEPT ![t] =
                    IF found = NULL THEN Return(m, -1)
                    ELSE [m EXCEPT !.pc = "p_ds_lk"]]
    /\ chanLock' = [chanLock EXCEPT ![mg[t].chan] = Free]
    /\ UNCHANGED <<alive, records, handles, datastores, chanvars, dsLock, bridge,
                   cb, nextSlot, ncalls, startRet, stopRet>>

\* bridgemon_ds = datastore->data; ast_mutex_lock(&bridgemon_ds->lock).
\* The bridgemon_ds itself is never released, so a datastore that another
\* thread has freed meanwhile either still yields it or the read faults.
StopDsLock(t) ==
    /\ Running
    /\ mg[t].pc = "p_ds_lk"
    /\ \/ /\ dsLock[mg[t].h] = Free
          /\ dsLock' = [dsLock EXCEPT ![mg[t].h] = MgId(t)]
          /\ mg' = [mg EXCEPT ![t].pc = "p_deact",
                              ![t].staleDs = handles[mg[t].h].ds = "freed"]
       \/ /\ handles[mg[t].h].ds = "freed"
          /\ mg' = [mg EXCEPT ![t].pc = "crashed", ![t].staleDs = TRUE]
          /\ UNCHANGED dsLock
    /\ UNCHANGED <<alive, records, handles, datastores, chanvars, chanLock, bridge,
                   cb, nextSlot, ncalls, startRet, stopRet>>

\* Faulty variant: stop leaves the active flag alone.
DeactivateSkipped(recs, r) == recs

\* if (bridgemon_data) bridgemon_data->active = 0;
Deactivate(recs, r) ==
    IF r # NULL THEN [recs EXCEPT ![r].active = FALSE] ELSE recs

\* The record reference is read and the record deactivated under the
\* bridgemon_ds lock. A reference to a record that a failed start has
\* freed is written through all the same, or the write faults.
StopDeactivate(t) ==
    /\ Running
    /\ mg[t].pc = "p_deact"
    /\ LET r == handles[mg[t].h].bridgemon_data
       IN  \/ /\ records' = Deactivate(records, r)
              /\ dsLock' = [dsLock EXCEPT ![mg[t].h] = Free]
              /\ mg' = [mg EXCEPT ![t].pc = "p_rm_lk",
                                  ![t].lockedAtClear =
                                      IF r = NULL THEN TRUE
                                      ELSE records[r].lock = MgId(t)]
           \/ /\ r # NULL /\ records[r].state = "freed"
              /\ mg' = [mg EXCEPT ![t].pc = "crashed"]
              /\ UNCHANGED <<records, dsLock>>
    /\ UNCHANGED <<alive, handles, datastores, chanvars, chanLock, bridge, cb,
                   nextSlot, ncalls, startRet, stopRet>>

StopRemoveLock(t) ==
    /\ Running
    /\ mg[t].pc = "p_rm_lk"
    /\ chanLock[mg[t].chan] = Free
    /\ chanLock' = [chanLock EXCEPT ![mg[t].chan] = MgId(t)]
    /\ mg' = [mg EXCEPT ![t].pc = "p_remove"]
    /\ UNCHANGED <<alive, records, handles, datastores, chanvars, dsLock, bridge,
                   cb, nextSlot, ncalls, startRet, stopRet>>

\* Faulty variant: the datastore is freed whether or not the removal found it
\* on the channel.
StopRemoveFreesAlways(t) ==
    /\ Running
    /\ mg[t].pc = "p_remove"
    /\ dsLock[mg[t].h] = Free
    /\ datastores' = [datastores EXCEPT ![mg[t].chan] =
                        ast_channel_datastore_remove(@, mg[t].h)]
    /\ handles' = bridgemon_ds_destroy(handles, mg[t].h)
    /\ chanLock' = [chanLock EXCEPT ![mg[t].chan] = Free]
    /\ stopRet' = [stopRet EXCEPT ![mg[t].h] = TRUE]
    /\ mg' = [mg EXCEPT ![t] = Return(mg[t], 0)]
    /\ UNCHANGED <<alive, records, chanvars, dsLock, bridge, cb, nextSlot,
                   ncalls, startRet>>

\* ast_channel_datastore_remove; when it removed the datastore,
\* ast_datastore_free runs the teardown (which takes the bridgemon_ds
\* lock). A datastore that is no longer on the channel is left alone.
\* stop returns 0 either way.
StopRemove(t) ==
    /\ Running
    /\ mg[t].pc = "p_remove"
    /\ IF InList(datastores[mg[t].chan], mg[t].h)
       THEN /\ dsLock[mg[t].h] = Free
            /\ datastores' = [datastores EXCEPT ![mg[t].chan] =
                                ast_channel_datastore_remove(@, mg[t].h)]
            /\ handles' = bridgemon_ds_destroy(handles, mg[t].h)
       ELSE UNCHANGED <<datastores, handles>>
    /\ chanLock' = [chanLock EXCEPT ![mg[t].chan] = Free]
    /\ stopRet' = [stopRet EXCEPT ![mg[t].h] = TRUE]
    /\ mg' = [mg EXCEPT ![t] = Return(mg[t], 0)]
    /\ UNCHANGED <<alive, records, chanvars, dsLock, bridge, cb, nextSlot, ncalls,
                   startRet>>

\* ------------------------------------------------- channel destruction
RECURSIVE DestroyAll(_, _)
DestroyAll(hs, list) ==
    IF list = <<>> THEN hs
    ELSE DestroyAll(bridgemon_ds_destroy(hs, Head(list)), Tail(list))

\* The host destroys channel c once nothing refers to it (it is in no
\* bridge and no management call on it is running): every datastore still
\* on the channel is freed, which runs its teardown.
ast_channel_destructor(c) ==
    /\ Running
    /\ c \in alive
    /\ c \notin bridge
    /\ \A t \in Threads :
          mg[t].pc \in {"idle", "done", "off"} \/ mg[t].chan # c
    /\ \A h \in Slots : InList(datastores[c], h) => dsLock[h] = Free
    /\ alive' = alive \ {c}
    /\ handles' = DestroyAll(handles, datastores[c])
    /\ datastores' = [datastores EXCEPT ![c] = <<>>]
    /\ UNCHANGED <<records, chanvars, chanLock, dsLock, bridge, cb, mg,
                   nextSlot, ncalls, startRet, stopRet>>

\* -------------------------------------------------- bridge event source
\* Channel c joins the bridge; one join notification is queued for every
\* registered hook.
Join(c) ==
    /\ Running
    /\ c \in alive
    /\ c \notin bridge
    /\ Cardinality(bridge) < MaxBridge
    /\ bridge' = bridge \cup {c}
    /\ cb' = [r \in Slots |->
                IF records[r].hooked /\ cb[r][c].pc = "none"
                THEN [cb[r] EXCEPT ![c].pc = "entry"]
                ELSE cb[r]]
    /\ UNCHANGED <<alive, records, handles, datastores, chanvars, chanLock, dsLock,
                   mg, nextSlot, ncalls, startRet, stopRet>>

\* ---------------------------------------------- bridgemon_hook_callback
\* Entry: the active check and the read of monitored_channel. The hooks of
\* one joining channel run one after the other on that channel's thread.
\* The record outlives its channel, so past the active check the callback
\* can hold a pointer to a destroyed channel: the log statements then
\* either do not evaluate it (verbosity below 2), read released memory, or
\* fault.
CbEntry(r, c) ==
    /\ Running
    /\ cb[r][c].pc = "entry"
    /\ \A q \in Slots : cb[q][c].pc \in {"none", "entry", "done"}
    /\ LET m == records[r].monitored_channel
           gone == records[r].active /\ m \notin alive
           k == [cb[r][c] EXCEPT !.afterStop = stopRet[r],
                                 !.target = m,
                                 !.afterDestroy = m \notin alive,
                                 !.lockedAtCheck =
                                     records[r].lock = CbId(r, c)]
           go == IF ~records[r].active
                 THEN [k EXCEPT !.pc = "done", !.sawInactive = TRUE]
                 ELSE IF c = m THEN [k EXCEPT !.pc = "trig_lk"]
                      ELSE [k EXCEPT !.pc = "peer"]
       IN  \/ cb' = [cb EXCEPT ![r][c] = go]
           \/ /\ gone
              /\ cb' = [cb EXCEPT ![r][c] = [go EXCEPT !.usedGone = TRUE]]
           \/ /\ gone
              /\ cb' = [cb EXCEPT ![r][c] =
                           [k EXCEPT !.pc = "crashed", !.usedGone = TRUE]]
    /\ UNCHANGED <<alive, records, handles, datastores, chanvars, chanLock, dsLock,
                   bridge, mg, nextSlot, ncalls, startRet, stopRet>>

CbTrigLock(r, c) ==
    /\ Running
    /\ cb[r][c].pc = "trig_lk"
    /\ chanLock[cb[r][c].target] = Free
    /\ chanLock' = [chanLock EXCEPT ![cb[r][c].target] = CbId(r, c)]
    /\ cb' = [cb EXCEPT ![r][c].pc = "trig"]
    /\ UNCHANGED <<alive, records, handles, datastores, chanvars, dsLock, bridge,
                   mg, nextSlot, ncalls, startRet, stopRet>>

\* The monitored channel is joining: BRIDGEMON_HOOK_TRIGGERED is set.
CbTrig(r, c) ==
    /\ Running
    /\ cb[r][c].pc = "trig"
    /\ chanvars' = pbx_builtin_setvar_helper(chanvars, cb[r][c].target,
                       "BRIDGEMON_HOOK_TRIGGERED", One)
    /\ chanLock' = [chanLock EXCEPT ![cb[r][c].target] = Free]
    /\ cb' = [cb EXCEPT ![r][c].pc = "peer", ![r][c].nwrites = @ + 1]
    /\ UNCHANGED <<alive, records, handles, datastores, dsLock, bridge, mg,
                   nextSlot, ncalls, startRet, stopRet>>

\* Faulty variant: a joining peer's id is taken without checking that its peer is
\* the monitored channel.
PeerIdForAnyJoin(c, m, p) ==
    IF c = m
    THEN IF p # "" THEN ast_copy_string(ast_channel_uniqueid(p), PEER_ID_SIZE)
         ELSE Unset
    ELSE ast_copy_string(ast_channel_uniqueid(c), PEER_ID_SIZE)

\* Which id, if any, the callback copies into peer_id for joining channel c,
\* monitored channel m and looked-up peer p.
PeerIdFor(c, m, p) ==
    IF c = m
    THEN IF p # "" THEN ast_copy_string(ast_channel_uniqueid(p), PEER_ID_SIZE)
         ELSE Unset
    ELSE IF p = m THEN ast_copy_string(ast_channel_uniqueid(c), PEER_ID_SIZE)
         ELSE Unset

\* ast_bridge_channel_peer and the copy of the unique id into peer_id.
CbPeer(r, c) ==
    /\ Running
    /\ cb[r][c].pc = "peer"
    /\ LET p == ast_bridge_channel_peer(c)
           id == PeerIdFor(c, cb[r][c].target, p)
       IN  cb' = [cb EXCEPT ![r][c].peerAtLookup = p,
                            ![r][c].peer_id = id,
                            ![r][c].pc = IF id = Unset THEN "done" ELSE "set_lk"]
    /\ UNCHANGED <<alive, records, handles, datastores, chanvars, chanLock, dsLock,
                   bridge, mg, nextSlot, ncalls, startRet, stopRet>>

\* Faulty variant: the callback goes on to write without taking the channel
\* lock.
CbSetLockSkipped(r, c) ==
    /\ Running
    /\ cb[r][c].pc = "set_lk"
    /\ cb' = [cb EXCEPT ![r][c].pc = "set"]
    /\ UNCHANGED <<alive, records, handles, datastores, chanvars, chanLock,
                   dsLock, bridge, mg, nextSlot, ncalls, startRet, stopRet>>

CbSetLock(r, c) ==
    /\ Running
    /\ cb[r][c].pc = "set_lk"
    /\ chanLock[cb[r][c].target] = Free
    /\ chanLock' = [chanLock EXCEPT ![cb[r][c].target] = CbId(r, c)]
    /\ cb' = [cb EXCEPT ![r][c].pc = "set"]
    /\ UNCHANGED <<alive, records, handles, datastores, chanvars, dsLock, bridge,
                   mg, nextSlot, ncalls, startRet, stopRet>>

\* The channel whose name goes into BRIDGEMON_PEER_NAME.
PeerOf(r, c) == IF c = cb[r][c].target THEN cb[r][c].peerAtLookup ELSE c

\* The channel whose Variable Store the callback writes.
WriteTarget(r, c) == cb[r][c].target

\* BRIDGEPEERID and the three markers are set on the monitored channel.
CbSet(r, c) ==
    /\ Running
    /\ cb[r][c].pc = "set"
    /\ LET w == WriteTarget(r, c)
           v1 == pbx_builtin_setvar_helper(chanvars, w, "BRIDGEPEERID",
                                           cb[r][c].peer_id)
           v2 == pbx_builtin_setvar_helper(v1, w, "BRIDGEMON_PEER_FOUND", One)
           v3 == pbx_builtin_setvar_helper(v2, w, "BRIDGEMON_PEER_NAME",
                                           ast_channel_name(PeerOf(r, c)))
       IN  chanvars' = pbx_builtin_setvar_helper(v3, w, "BRIDGEMON_CHANNEL_ID",
                                                 cb[r][c].peer_id)
    /\ chanLock' = [chanLock EXCEPT ![cb[r][c].target] = Free]
    /\ cb' = [cb EXCEPT ![r][c].pc = "done",
                        ![r][c].wrote = cb[r][c].peer_id,
                        ![r][c].target = WriteTarget(r, c),
                        ![r][c].nwrites = @ + 4,
                        ![r][c].wroteAfterStop = stopRet[r],
                        ![r][c].wroteBeforeRet = ~StartedOn(WriteTarget(r, c))]
    /\ UNCHANGED <<alive, records, handles, datastores, dsLock, bridge, mg,
                   nextSlot, ncalls, startRet, stopRet>>

\* ------------------------------------------------------- specification
Next ==
    \/ \E t \in Threads, c \in Targets, id \in StartIds : StartAllocFail(t, c, id)
    \/ \E t \in Threads, c \in Targets, id \in StartIds : StartAlloc(t, c, id)
    \/ \E t \in Threads : StartMarkLock(t)
    \/ \E t \in Threads : StartMark(t)
    \/ \E t \in Threads : StartFeaturesFail(t)
    \/ \E t \in Threads : StartSetupFail(t)
    \/ \E t \in Threads : StartSetup(t)
    \/ \E t \in Threads : StartAttachLock(t)
    \/ \E t \in Threads : StartAttach(t)
    \/ \E t \in Threads : StartHook(t)
    \/ \E t \in Threads : StartHookFail(t)
    \/ \E t \in Threads : StartAddedLock(t)
    \/ \E t \in Threads : StartAdded(t)
    \/ \E t \in Threads, c \in Targets, id \in StopIds : StopBegin(t, c, id)
    \/ \E t \in Threads : StopFindLock(t)
    \/ \E t \in Threads : StopFind(t)
    \/ \E t \in Threads : StopDsLock(t)
    \/ \E t \in Threads : StopDeactivate(t)
    \/ \E t \in Threads : StopRemoveLock(t)
    \/ \E t \in Threads : StopRemove(t)
    \/ \E c \in Targets : ast_channel_destructor(c)
    \/ \E c \in Channels : Join(c)
    \/ \E r \in Slots, c \in Channels : CbEntry(r, c)
    \/ \E r \in Slots, c \in Channels : CbTrigLock(r, c)
    \/ \E r \in Slots, c \in Channels : CbTrig(r, c)
    \/ \E r \in Slots, c \in Channels : CbPeer(r, c)
    \/ \E r \in Slots, c \in Channels : CbSetLock(r, c)
    \/ \E r \in Slots, c \in Channels : CbSet(r, c)

Spec == Init /\ [][Next]_vars

\* The steps of the call that management thread t is executing.
MgStep(t) ==
    \/ StartMarkLock(t) \/ StartMark(t) \/ StartFeaturesFail(t)
    \/ StartSetupFail(t) \/ StartSetup(t) \/ StartAttachLock(t)
    \/ StartAttach(t) \/ StartHook(t) \/ StartHookFail(t)
    \/ StartAddedLock(t) \/ StartAdded(t)
    \/ StopFindLock(t) \/ StopFind(t) \/ StopDsLock(t) \/ StopDeactivate(t)
    \/ StopRemoveLock(t) \/ StopRemove(t)

\* The steps of the join callback of record r for joining channel c.
CbStep(r, c) ==
    \/ CbEntry(r, c) \/ CbTrigLock(r, c) \/ CbTrig(r, c) \/ CbPeer(r, c)
    \/ CbSetLock(r, c) \/ CbSet(r, c)

\* Every thread that can take a step is eventually scheduled.
Fairness ==
    /\ \A t \in Threads : WF_vars(MgStep(t))
    /\ \A r \in Slots, c \in Channels : WF_vars(CbStep(r, c))

FairSpec == Spec /\ Fairness

\* Concurrent management calls: ConcThreads threads, from the state in
\* which a first start(A, "s1") has run to completion and returned 0, and
\* B has then joined the empty bridge, its join callback finding no peer.
InitConc ==
    /\ records = [r \in Slots |->
                    IF r = 1
                    THEN [state |-> "live", monitored_channel |-> "A",
                          channel_id |-> S1, active |-> TRUE,
                          hooked |-> TRUE, lock |-> Free]
                    ELSE NoRecord]
    /\ handles = [setup_bridgemon_ds([h \in Slots |-> NoHandle], 1)
                    EXCEPT ![1].ds = "attached"]
    /\ datastores = [c \in Channels |->
                       IF c = "A" THEN ast_channel_datastore_add(<<>>, 1)
                       ELSE <<>>]
    /\ chanvars = [c \in Channels |-> [k \in Keys |->
                     IF c = "A" /\ k \in {"BRIDGEMON_MONITORING_STARTED",
                                           "BRIDGEMON_HOOK_ADDED"}
                     THEN One ELSE Unset]]
    /\ chanLock = [c \in Channels |-> Free]
    /\ dsLock = [h \in Slots |-> Free]
    /\ bridge = {"B"}
    /\ cb = [r \in Slots |-> [c \in Channels |->
               IF r = 1 /\ c = "B"
               THEN [NoCb EXCEPT !.pc = "done", !.target = "A"]
               ELSE NoCb]]
    /\ mg = [t \in Threads |->
               IF t = 1
               THEN Return([Idle EXCEPT !.op = "start", !.chan = "A",
                                        !.id = S1, !.h = 1], 0)
               ELSE IF t <= ConcThreads THEN Idle ELSE Off]
    /\ nextSlot = 2
    /\ ncalls = 1
    /\ startRet = [r \in Slots |-> IF r = 1 THEN "ok" ELSE "none"]
    /\ stopRet = [r \in Slots |-> FALSE]
    /\ alive = Channels

SpecConc == InitConc /\ [][Next]_vars

FairSpecConc == SpecConc /\ Fairness


\* ================================================================ claims
Finished(r, c) == cb[r][c].pc = "done" /\ ~cb[r][c].sawInactive
OnlySession(r) == \A q \in Slots : q # r => records[q].state = "none"

\* C1: with one active session on A and a two-party bridge of A and B,
\* once both join callbacks have run exactly one of them has written B's
\* unique id to A's BRIDGEPEERID.
C1_ExactlyOnePeerIdWrite ==
    \A r \in Slots :
        ( /\ OnlySession(r)
          /\ records[r].active
          /\ records[r].monitored_channel = "A"
          /\ bridge = {"A", "B"}
          /\ Finished(r, "A") /\ Finished(r, "B") )
        => Cardinality({c \in {"A", "B"} :
                          cb[r][c].wrote = ast_channel_uniqueid("B")}) = 1

\* C2: a stop(E, s) issued while the session (E, s), whose start returned
\* success, is active finds the session's handle: it does not return -1.
C2_StopFindsStartedSession ==
    \A t \in Threads :
        (mg[t].op = "stop" /\ mg[t].pc = "done" /\ mg[t].wasActive)
        => mg[t].res = 0

\* C3: no join callback writes the peer id after a stop that found its
\* session has returned, also when the callback was in flight during stop.
C3_NoWriteAfterStopReturned ==
    \A r \in Slots, c \in Channels :
        cb[r][c].wrote # Unset => ~cb[r][c].wroteAfterStop

\* C4: a join callback whose invocation begins after a stop that found the
\* session has returned sees the session inactive and writes no variable.
C4_CallbackAfterStopIsNoOp ==
    \A r \in Slots, c \in Channels :
        (cb[r][c].afterStop /\ cb[r][c].pc \notin {"none", "entry"})
        => /\ cb[r][c].pc = "done"
           /\ cb[r][c].sawInactive
           /\ cb[r][c].nwrites = 0
           /\ cb[r][c].wrote = Unset

C4_Witness ==
    \E r \in Slots, c \in Channels :
        /\ cb[r][c].afterStop
        /\ cb[r][c].pc = "done"
        /\ cb[r][c].sawInactive
        /\ stopRet[r]

\* C5 (as claimed): no peer-id write reaches an endpoint before a start on
\* it has returned success.
C5_NoWriteBeforeStartReturned ==
    \A r \in Slots, c \in Channels :
        cb[r][c].wrote # Unset => ~cb[r][c].wroteBeforeRet

\* C5 (amended): every peer-id write is made for a record whose join hook
\* start has registered, on that record's monitored channel, and never for
\* a start that returned failure.
C5_NoWriteBeforeRegistration ==
    \A r \in Slots, c \in Channels :
        cb[r][c].wrote # Unset
        => /\ records[r].hooked
           /\ startRet[r] # "fail"
           /\ cb[r][c].target = records[r].monitored_channel

C5_Witness ==
    \E r \in Slots, c \in Channels :
        /\ cb[r][c].wrote # Unset
        /\ cb[r][c].wroteBeforeRet
        /\ startRet[r] = "none"
        /\ records[r].hooked

\* C6: a stop(E, s) for a session id s with no active session on E finds
\* nothing and returns -1.
C6_StopOfUnknownIdNotFound ==
    \A t \in Threads :
        (mg[t].op = "stop" /\ mg[t].pc \notin {"p_find_lk", "p_find"}
           /\ ~mg[t].wasKnown)
        => (mg[t].h = NULL /\ mg[t].pc = "done" /\ mg[t].res = -1)

\* C7: when start has returned failure, no handle of that attempt is on
\* the channel and no attached handle refers to a released record.
C7_FailedStartLeavesNothing ==
    \A t \in Threads :
        (mg[t].op = "start" /\ mg[t].pc = "done" /\ mg[t].res # 0)
        => /\ mg[t].h # NULL => ~InList(datastores[mg[t].chan], mg[t].h)
           /\ \A c \in Channels, h \in Slots :
                 (InList(datastores[c], h) /\ handles[h].bridgemon_data # NULL)
                 => records[handles[h].bridgemon_data].state # "freed"

\* The participant of the pairing other than the monitored channel.
OtherParticipant(r, c) ==
    IF c = records[r].monitored_channel THEN cb[r][c].peerAtLookup ELSE c

\* C8: every peer-id write goes to the monitored channel's Variable Store,
\* carries the other participant's unique id, and no other channel's
\* store is written.
C8_WriteCarriesPeerUniqueId ==
    /\ \A r \in Slots, c \in Channels :
          cb[r][c].wrote # Unset
          => /\ cb[r][c].target = records[r].monitored_channel
             /\ cb[r][c].wrote = ast_channel_uniqueid(OtherParticipant(r, c))
             /\ chanvars[cb[r][c].target]["BRIDGEPEERID"] # Unset
    /\ \A c \in Channels \ Targets, k \in Keys : chanvars[c][k] = Unset

\* C9: a join callback for a channel other than the monitored one whose
\* peer lookup yields nobody, or somebody other than the monitored channel,
\* writes no variable and returns.
C9_UnrelatedJoinWritesNothing ==
    \A r \in Slots, c \in Channels :
        ( /\ cb[r][c].pc \in {"set_lk", "set", "done"}
          /\ c # records[r].monitored_channel
          /\ cb[r][c].peerAtLookup # records[r].monitored_channel )
        => /\ cb[r][c].pc = "done"
           /\ cb[r][c].nwrites = 0
           /\ cb[r][c].wrote = Unset
           /\ \A k \in Keys : chanvars[c][k] = Unset

C9_Witness ==
    \E r \in Slots, c \in Channels :
        /\ Finished(r, c)
        /\ c # records[r].monitored_channel
        /\ cb[r][c].peerAtLookup \notin {"", records[r].monitored_channel}
        /\ cb[r][c].nwrites = 0

\* C10: every entry point reports failure for a start or stop that
\* returned nonzero.
C10_FailureSurfaced ==
    \A t \in Threads :
        (mg[t].pc = "done" /\ mg[t].res # 0)
        => \A e \in Entries : mg[t].reported[e] = "failure"

\* C11: bridgemon_ds_destroy never runs twice on a handle, and it has run
\* once when a stop that found the handle has returned (two concurrent
\* stops of the same handle included) or when the handle's channel has
\* been destroyed; a handle is freed exactly when its teardown has run.
C11_TeardownExactlyOnce ==
    \A h \in Slots :
        /\ handles[h].teardowns <= 1
        /\ (handles[h].teardowns = 1) <=> (handles[h].ds = "freed")
        /\ stopRet[h] => handles[h].teardowns = 1
        /\ ( handles[h].ds # "none"
             /\ records[h].monitored_channel \notin alive )
           => handles[h].teardowns = 1

C11_Witness ==
    \E t, u \in Threads :
        /\ t # u
        /\ mg[t].op = "stop" /\ mg[t].pc = "done" /\ mg[t].res = 0
        /\ mg[u].op = "stop" /\ mg[u].pc = "done" /\ mg[u].res = 0
        /\ mg[t].h # NULL /\ mg[t].h = mg[u].h
        /\ handles[mg[t].h].teardowns = 1

\* C12: the join callback's check of active and stop's clearing of active
\* are each made while the accessing thread holds the record's own lock.
C12_ActiveAccessUnderRecordLock ==
    /\ \A r \in Slots, c \in Channels :
          cb[r][c].pc \notin {"none", "entry"} => cb[r][c].lockedAtCheck
    /\ \A t \in Threads :
          ( mg[t].op = "stop" /\ mg[t].h # NULL
            /\ mg[t].pc \in {"p_rm_lk", "p_remove", "done"} )
          => mg[t].lockedAtClear

\* C13: a join callback invoked after the host has destroyed the monitored
\* channel writes no variable and does not use the destroyed channel.
C13_CallbackAfterDestroyIsNoOp ==
    \A r \in Slots, c \in Channels :
        (cb[r][c].afterDestroy /\ cb[r][c].pc \notin {"none", "entry"})
        => /\ cb[r][c].nwrites = 0
           /\ cb[r][c].wrote = Unset
           /\ ~cb[r][c].usedGone
           /\ cb[r][c].pc # "crashed"

\* The records of (c, id) that are live, active and attached to c.
ActiveAttached(c, id) ==
    {r \in Slots : /\ records[r].state = "live"
                   /\ records[r].active
                   /\ records[r].monitored_channel = c
                   /\ records[r].channel_id = id
                   /\ InList(datastores[c], r)}

\* C14: each (channel, session id) has at most one record that is attached
\* and active.
C14_OneRecordPerSession ==
    \A c \in Targets, id \in StartIds :
        Cardinality(ActiveAttached(c, id)) <= 1

\* The threads that are inside a write to the Variable Store of channel c.
Writers(c) ==
    {MgId(t) : t \in {u \in Threads : /\ mg[u].pc \in {"s_mark", "s_added"}
                                       /\ mg[u].chan = c}}
    \cup {CbId(x[1], x[2]) :
            x \in {y \in Slots \X Channels :
                     /\ cb[y[1]][y[2]].pc \in {"trig", "set"}
                     /\ cb[y[1]][y[2]].target = c}}

\* C15: a thread inside a Variable Store write holds the written channel's
\* lock, so at most one thread is inside a write to one channel; and a
\* channel's variables change only while its lock is held.
C15_WritesUnderChannelLock ==
    /\ [](\A c \in Channels : Writers(c) \subseteq {chanLock[c]})
    /\ [][\A c \in Channels :
            chanvars'[c] # chanvars[c]
            => (chanLock[c] # Free /\ Writers(c) = {chanLock[c]})]_vars

C15_Witness ==
    \E r \in Slots, c \in Channels, t \in Threads :
        /\ cb[r][c].pc = "set"
        /\ chanLock[cb[r][c].target] = CbId(r, c)
        /\ mg[t].pc = "s_added_lk"
        /\ mg[t].chan = cb[r][c].target

C17_DestructionOkMeansNoRecord ==
    /\ [](\A h \in Slots :
            handles[h].destruction_ok => handles[h].bridgemon_data = NULL)
    /\ [][\A h \in Slots :
            handles[h].destruction_ok => handles'[h].destruction_ok]_vars

C17_Witness ==
    \E h \in Slots :
        /\ handles[h].destruction_ok
        /\ handles[h].teardowns = 1
        /\ records[h].state = "live"

\* C18: when a stop that found the session has returned, the session's
\* bridgemon_ds and its bridgemon_data have both been released.
C18_StopReleasesHandleAndRecord ==
    \A t \in Threads :
        (mg[t].op = "stop" /\ mg[t].pc = "done" /\ mg[t].res = 0)
        => /\ handles[mg[t].h].state = "freed"
           /\ records[mg[t].h].state = "freed"

\* C19: stop never reads a datastore that has been removed and freed since
\* stop looked it up.
C19_StopNeverUsesFreedDatastore ==
    \A t \in Threads : ~mg[t].staleDs

\* C20: the id the callback holds in peer_id is the other participant's
\* complete unique id, whatever its length.
C20_PeerIdIsCompleteUniqueId ==
    \A r \in Slots, c \in Channels :
        cb[r][c].peer_id # Unset
        => Len(cb[r][c].peer_id) =
               Len(ast_channel_uniqueid(OtherParticipant(r, c)))

====
